---- MODULE Spec2Model ----
(***************************************************************************)
(* Page store of borrd: the pages and folders tables and the request       *)
(* handlers that read and write them (publish, delete-page, move-page,     *)
(* folder create, the page list, the public page view and the dashboard's  *)
(* restore).                                                               *)
(*                                                                         *)
(* The specifications share the state:                                     *)
(*   Spec            requests served one at a time, a handler per action;  *)
(*   SpecConc        publish split at the await after its existence check; *)
(*   SpecRepublish   one slug published, soft-deleted and published again; *)
(*   SpecFolders     the folder tree, handlers served as a whole;          *)
(*   SpecFoldersConc move-folder split at the await of its update;         *)
(*   SpecOwner       one owner's folders under two names;                  *)
(*   SpecDeleteSteps folder delete served statement by statement;          *)
(*   SpecOrganize    pages filed in folders, and the reads;                *)
(*   SpecSidebar     the dashboard's sidebar;                              *)
(*   SpecUpload      the editor's upload.                                  *)
(***************************************************************************)
EXTENDS Integers, Sequences, FiniteSets, TLC

(* ------------------------------ bounds --------------------------------- *)

\* longest slug drawn as a request input
MaxSlugLen == 2
\* number of timestamped writes (each write reads a later clock value)
MaxClock == 2
\* publish requests that may sit between their check and their write
MaxInflight == 2
\* folder ids the SERIAL sequence hands out
MaxFolders == 3
\* the same, where move-folder requests interleave
MaxFoldersConc == 2
\* the same, where one slug is published, deleted and published again
MaxFoldersRepublish == 1
\* the same, where pages are filed in the folders
MaxFoldersOrganize == 2
\* the same, where one owner's move-folder requests interleave
MaxFoldersOwner == 3
\* the same, where a folder delete is served statement by statement
MaxFoldersSteps == 2
\* folder delete requests that may sit between their steps
MaxDeleting == 1
\* move-folder requests that may sit before their update meanwhile
MaxMoving == 1
\* folders and active pages in the lists the sidebar is built from
MaxSidebarFolders == 2
MaxSidebarPages == 3
\* uploads one editor session sends to storage
MaxUploads == 1

(* ------------------------------ values --------------------------------- *)

\* SQL NULL / JS null, undefined and 0; ids and timestamps start at 1
NULL == 0

Users == {"u1", "u2"}

\* getAuthenticatedUser's null: no or invalid bearer credential
NoUser == "anon"

Lower == {"a","b","c","d","e","f","g","h","i","j","k","l","m",
          "n","o","p","q","r","s","t","u","v","w","x","y","z"}

Upper == {"A","B","C","D","E","F","G","H","I","J","K","L","M",
          "N","O","P","Q","R","S","T","U","V","W","X","Y","Z"}

Digit == {"0","1","2","3","4","5","6","7","8","9"}

\* characters the request inputs are made of: one inside the slug class
\* and one outside it
SlugAlphabet == {"a", "/"}

\* a slug is a sequence of characters
SlugInputs == UNION {[1..n -> SlugAlphabet] : n \in 0..MaxSlugLen}

\* "" stands for a missing or empty markdown field
MarkdownInputs == {"", "m1", "m2"}

\* folder names as character sequences
FolderNameInputs == {<< >>, <<"n">>, <<"n", " ">>, <<"!">>}

(* ------------------------------ state ---------------------------------- *)

VARIABLES
  pages,        \* rows of the pages table
  folders,      \* rows of the folders table
  nextPageId,   \* pages.id SERIAL sequence
  nextFolderId, \* folders.id SERIAL sequence
  now,          \* the clock value the next write reads
  inflight,     \* requests between their checks and their write
  deleting,     \* folder delete requests between their steps
  resp,         \* the last response sent
  props,        \* the dashboard's lists: pages, deletedPages, folders
  sidebarItems, \* the dashboard's sidebar, as last rendered
  file,         \* the file the editor's upload was given
  storage       \* the uploads object storage has received

\* the state held by the browser
client == <<props, sidebarItems, file, storage>>

vars == <<pages, folders, nextPageId, nextFolderId, now, inflight, deleting,
          resp,
          props, sidebarItems, file, storage>>

(* --------------------------- store contract ---------------------------- *)

\* PostgREST .single(): exactly one row, else error PGRST116
Single(rows) ==
  IF Cardinality(rows) = 1
  THEN [data |-> CHOOSE r \in rows : TRUE, error |-> "none"]
  ELSE [data |-> NULL, error |-> "PGRST116"]

\* /^[a-zA-Z0-9_-]+$/ and the class of slug ~ '^[a-zA-Z0-9_-]+$'
SlugChar(c) == c \in Lower \cup Upper \cup Digit \cup {"_", "-"}

\* CONSTRAINT valid_page_slug
valid_page_slug(slug) ==
  /\ \A i \in 1..Len(slug) : SlugChar(slug[i])
  /\ Len(slug) > 0

\* the (user_id, slug) index created without UNIQUE
unique_user_slug_plain_index(rows, row) == TRUE

\* CONSTRAINT unique_user_slug UNIQUE (user_id, slug)
unique_user_slug(rows, row) ==
  \A p \in rows : ~(p.user_id = row.user_id /\ p.slug = row.slug)

\* folder_id INTEGER REFERENCES folders(id)
folder_fk(fs, fid) == fid = NULL \/ \E f \in fs : f.id = fid

\* INSERT INTO pages: the constraints, then the row with its defaults
InsertPage(rows, fs, id, slug, markdown, folderId, user, t) ==
  LET row == [id |-> id, slug |-> slug, markdown |-> markdown,
              folder_id |-> folderId, user_id |-> user,
              deleted_at |-> NULL, created_at |-> t, updated_at |-> t]
  IN  IF ~unique_user_slug(rows, row)
      THEN [pages |-> rows, error |-> "unique"]
      ELSE IF ~valid_page_slug(slug)
      THEN [pages |-> rows, error |-> "check"]
      ELSE IF ~folder_fk(fs, folderId)
      THEN [pages |-> rows, error |-> "fk"]
      ELSE [pages |-> rows \cup {row}, error |-> "none"]

(* ------------------------------ publish -------------------------------- *)

\* the folder check of publish: a numeric folderId must name a folder of
\* the caller
PublishFolderOk(fs, user, folderId) ==
  folderId = NULL \/ \E f \in fs : f.id = folderId /\ f.user_id = user

\* the editor's pattern, which also lets '/' through
PublishSlugOk_with_slash(slug) ==
  Len(slug) > 0 /\ \A i \in 1..Len(slug) : SlugChar(slug[i]) \/ slug[i] = "/"

\* /^[a-zA-Z0-9_-]+$/.test(slug)
PublishSlugOk(slug) ==
  Len(slug) > 0 /\ \A i \in 1..Len(slug) : SlugChar(slug[i])

\* authentication and body validation; status 0 when the request passes
PublishValidate(fs, user, markdown, slug, folderId) ==
  IF user = NoUser THEN [status |-> 401, error |-> "unauthorized"]
  ELSE IF markdown = "" THEN [status |-> 400, error |-> "markdown"]
  ELSE IF Len(slug) = 0 THEN [status |-> 400, error |-> "slug-required"]
  ELSE IF ~PublishSlugOk(slug) THEN [status |-> 400, error |-> "slug-format"]
  ELSE IF ~PublishFolderOk(fs, user, folderId)
  THEN [status |-> 400, error |-> "folder"]
  ELSE [status |-> 0, error |-> "none"]

\* an existence check that looks at active pages only
PublishFetch_active_only(rows, user, slug) ==
  LET r == Single({p \in rows : /\ p.slug = slug /\ p.user_id = user
                                /\ p.deleted_at = NULL})
  IN  IF r.error = "none" THEN r.data.id ELSE NULL

\* the existence check: the id of the caller's page with this slug, or NULL
PublishFetch(rows, user, slug) ==
  LET r == Single({p \in rows : p.slug = slug /\ p.user_id = user})
  IN  IF r.error = "none" THEN r.data.id ELSE NULL

\* an update that also brings the page back from the trash
PublishUpdate_restores(rows, slug, markdown, folderId, t) ==
  {IF p.slug = slug
   THEN [p EXCEPT !.markdown = markdown, !.folder_id = folderId,
                  !.updated_at = t, !.deleted_at = NULL]
   ELSE p : p \in rows}

\* .update({markdown, folder_id, updated_at}).eq('slug', slug)
PublishUpdate(rows, slug, markdown, folderId, t) ==
  {IF p.slug = slug
   THEN [p EXCEPT !.markdown = markdown, !.folder_id = folderId,
                  !.updated_at = t]
   ELSE p : p \in rows}

\* the write that follows the existence check
PublishWrite(rows, fs, existing, user, markdown, slug, folderId, t, id) ==
  IF existing # NULL
  THEN IF folder_fk(fs, folderId)
       THEN [pages |-> PublishUpdate(rows, slug, markdown, folderId, t),
             status |-> 200, action |-> "updated", error |-> "none",
             insert |-> FALSE]
       ELSE [pages |-> rows, status |-> 500, action |-> "none",
             error |-> "fk", insert |-> FALSE]
  ELSE LET ins == InsertPage(rows, fs, id, slug, markdown, folderId, user, t)
       IN  IF ins.error # "none"
           THEN [pages |-> rows, status |-> 500, action |-> "none",
                 error |-> ins.error, insert |-> TRUE]
           ELSE [pages |-> ins.pages, status |-> 201, action |-> "created",
                 error |-> "none", insert |-> TRUE]

\* the whole publish handler, served without another request in between
PublishHandler(rows, fs, user, markdown, slug, folderId, t, id) ==
  LET v == PublishValidate(fs, user, markdown, slug, folderId)
  IN  IF v.status # 0
      THEN [pages |-> rows, status |-> v.status, action |-> "none",
            error |-> v.error, insert |-> FALSE]
      ELSE PublishWrite(rows, fs, PublishFetch(rows, user, slug),
                        user, markdown, slug, folderId, t, id)

(* ----------------------------- delete-page ------------------------------ *)

\* the page lookup shared by delete-page and move-page: by id when pageId
\* is given, else by slug; neither query filters on user_id
PageLookup(rows, pageId, slug) ==
  IF pageId # NULL
  THEN Single({p \in rows : p.id = pageId})
  ELSE Single({p \in rows : p.slug = slug})

\* a delete that removes the row
SoftDelete_hard(rows, id, t) == {p \in rows : p.id # id}

\* .update({deleted_at, updated_at}).eq('id', page.id)
SoftDelete(rows, id, t) ==
  {IF p.id = id THEN [p EXCEPT !.deleted_at = t, !.updated_at = t] ELSE p
   : p \in rows}

\* the delete-page handler
DeletePageHandler(rows, method, user, pageId, slug, t) ==
  IF user = NoUser THEN [pages |-> rows, status |-> 401]
  ELSE IF method # "DELETE" THEN [pages |-> rows, status |-> 405]
  ELSE IF pageId = NULL /\ Len(slug) = 0 THEN [pages |-> rows, status |-> 400]
  ELSE LET page == PageLookup(rows, pageId, slug)
       IN  IF page.error # "none"
           THEN [pages |-> rows, status |-> 404]
           ELSE [pages |-> SoftDelete(rows, page.data.id, t), status |-> 200]

\* dashboard restorePage: POST /api/delete-page with body {pageId, restore}
\* and no Authorization header
RestorePageRequest(rows, pageId, t) ==
  DeletePageHandler(rows, "POST", NoUser, NULL, << >>, t)

(* ------------------------------ move-page ------------------------------- *)

\* the folder check of move-page: .eq('id', folderId).single()
MoveFolderOk(fs, folderId) ==
  folderId = NULL \/ Single({f \in fs : f.id = folderId}).error = "none"

\* .update({folder_id, updated_at}).eq('id', currentPage.id)
MoveUpdate(rows, id, folderId, t) ==
  {IF p.id = id THEN [p EXCEPT !.folder_id = folderId, !.updated_at = t] ELSE p
   : p \in rows}

\* the move-page handler
MovePageHandler(rows, fs, user, pageId, slug, folderId, t) ==
  IF user = NoUser THEN [pages |-> rows, status |-> 401]
  ELSE IF pageId = NULL /\ Len(slug) = 0 THEN [pages |-> rows, status |-> 400]
  ELSE IF ~MoveFolderOk(fs, folderId) THEN [pages |-> rows, status |-> 400]
  ELSE LET page == PageLookup(rows, pageId, slug)
       IN  IF page.error # "none"
           THEN [pages |-> rows, status |-> 404]
           ELSE [pages |-> MoveUpdate(rows, page.data.id, folderId, t),
                 status |-> 200]

(* ----------------------------- folder create ---------------------------- *)

\* \s of the folder-name pattern
Whitespace == {" "}

\* /^[a-zA-Z0-9_\s-]+$/
FolderNameChar(c) == c \in Lower \cup Upper \cup Digit \cup {"_", "-"} \cup Whitespace

RECURSIVE TrimStart(_)
TrimStart(s) ==
  IF Len(s) > 0 /\ Head(s) \in Whitespace THEN TrimStart(Tail(s)) ELSE s

RECURSIVE TrimEnd(_)
TrimEnd(s) ==
  IF Len(s) > 0 /\ s[Len(s)] \in Whitespace
  THEN TrimEnd(SubSeq(s, 1, Len(s) - 1)) ELSE s

\* String.prototype.trim
Trim(s) == TrimEnd(TrimStart(s))

\* CONSTRAINT valid_folder_name
valid_folder_name(name) == Len(name) > 0 /\ Len(name) <= 100

\* the POST case of the folders handler
CreateFolderHandler(fs, user, name, id) ==
  IF user = NoUser THEN [folders |-> fs, status |-> 401, insert |-> FALSE]
  ELSE IF Len(name) = 0 THEN [folders |-> fs, status |-> 400, insert |-> FALSE]
  ELSE IF ~(\A i \in 1..Len(name) : FolderNameChar(name[i]))
  THEN [folders |-> fs, status |-> 400, insert |-> FALSE]
  ELSE LET existing == Single({f \in fs : /\ f.name = Trim(name)
                                           /\ f.user_id = user
                                           /\ f.parent_id = NULL})
       IN  IF existing.error = "none"
           THEN [folders |-> fs, status |-> 400, insert |-> FALSE]
           ELSE IF ~valid_folder_name(Trim(name))
           THEN [folders |-> fs, status |-> 500, insert |-> TRUE]
           ELSE [folders |-> fs \cup {[id |-> id, name |-> Trim(name),
                                      parent_id |-> NULL, user_id |-> user]},
                 status |-> 201, insert |-> TRUE]

(* ------------------------------ move-folder ----------------------------- *)

\* targetParentId of the request body: null, a JSON number or a JSON string
\* of digits; the store reads the string "3" as the integer 3
Truthy(tp) == tp.type = "string" \/ (tp.type = "number" /\ tp.id # 0)

\* targetParentId || null, as the store writes and compares it
ParentValue(tp) == IF Truthy(tp) THEN tp.id ELSE NULL

\* checkDescendant over the parentMap of isDescendant. The rows come back
\* in no stated order, so the order of a folder's children is open: the
\* result is the set of answers some order gives. A folder met again on
\* the call stack recurses without end ("overflow", a RangeError).
RECURSIVE checkDescendant(_, _, _, _)
checkDescendant(fs, targetId, currentId, stack) ==
  IF currentId = targetId THEN {"true"}
  ELSE IF currentId \in stack THEN {"overflow"}
  ELSE LET children == {f.id : f \in {g \in fs : g.parent_id = currentId}}
           outs == [c \in children |->
                      checkDescendant(fs, targetId, c, stack \cup {currentId})]
       IN  UNION {outs[c] \ {"false"} : c \in children}
             \cup (IF \A c \in children : "false" \in outs[c]
                   THEN {"false"} ELSE {})

\* isDescendant(targetId, folderId): the answers the search can give
isDescendant(fs, targetId, folderId) ==
  checkDescendant(fs, targetId, folderId, {})

\* isDescendant when its select of the folders answers an error: the error
\* is logged and the answer is false
isDescendantOnError(fs, targetId, folderId) == {"false"}

\* what the store answers to .eq('parent_id', null): the filter compares an
\* integer column with the text 'null'
EqNullOutcomes == {"22P02", "PGRST116"}

\* the name-conflict query of move-folder
MoveFolderConflict(fs, name, parent, folderId, eqNull) ==
  IF parent = NULL
  THEN [data |-> NULL, error |-> eqNull]
  ELSE Single({f \in fs : /\ f.name = name /\ f.parent_id = parent
                           /\ f.id # folderId})

\* move-folder up to its update: status 0 when the request passes. desc is
\* the answer of isDescendant, eqNull the store's answer to eq.null
MoveFolderValidate(fs, folderId, tp, desc, eqNull) ==
  IF folderId = NULL THEN [status |-> 400, error |-> "folder-id"]
  ELSE IF /\ tp.type = "number" /\ tp.id # 0
          /\ Single({f \in fs : f.id = tp.id}).error # "none"
  THEN [status |-> 400, error |-> "target"]
  ELSE IF Single({f \in fs : f.id = folderId}).error # "none"
  THEN [status |-> 404, error |-> "not-found"]
  ELSE IF tp.type = "number" /\ tp.id # 0 /\ desc = "true"
  THEN [status |-> 400, error |-> "cycle"]
  ELSE IF tp.type = "number" /\ tp.id # 0 /\ desc = "overflow"
  THEN [status |-> 500, error |-> "internal"]
  ELSE LET folderToMove == Single({f \in fs : f.id = folderId}).data
           existing == MoveFolderConflict(fs, folderToMove.name,
                                          ParentValue(tp), folderId, eqNull)
       IN  IF existing.error \notin {"none", "PGRST116"}
           THEN [status |-> 500, error |-> "conflict-check"]
           ELSE IF existing.error = "none"
           THEN [status |-> 400, error |-> "name"]
           ELSE [status |-> 0, error |-> "none"]

\* .update({parent_id, updated_at}).eq('id', folderId), under the foreign
\* key of parent_id
MoveFolderUpdate(fs, folderId, parent) ==
  IF ~folder_fk(fs, parent)
  THEN [folders |-> fs, status |-> 500, error |-> "fk"]
  ELSE [folders |-> {IF f.id = folderId THEN [f EXCEPT !.parent_id = parent]
                     ELSE f : f \in fs},
        status |-> 200, error |-> "none"]

\* the whole move-folder handler; it reads no credential
MoveFolderHandler(fs, folderId, tp, desc, eqNull) ==
  LET v == MoveFolderValidate(fs, folderId, tp, desc, eqNull)
  IN  IF v.status # 0
      THEN [folders |-> fs, status |-> v.status, error |-> v.error]
      ELSE MoveFolderUpdate(fs, folderId, ParentValue(tp))

(* ----------------------------- folder delete ---------------------------- *)

\* parent_id REFERENCES folders(id) ON DELETE CASCADE: the ids that go
\* with the ids in gone
RECURSIVE Cascade(_, _)
Cascade(fs, gone) ==
  LET more == {f.id : f \in {g \in fs : g.parent_id \in gone}} \ gone
  IN  IF more = {} THEN gone ELSE Cascade(fs, gone \cup more)

\* the lookup of the folder to delete: .eq('id').eq('user_id').single();
\* status 0 when the request goes on
DeleteFolderLookup(fs, user, folderId) ==
  IF user = NoUser THEN [status |-> 401, parent |-> NULL]
  ELSE IF folderId = NULL THEN [status |-> 400, parent |-> NULL]
  ELSE LET folderToDelete ==
             Single({f \in fs : f.id = folderId /\ f.user_id = user})
       IN  IF folderToDelete.error # "none"
           THEN [status |-> 404, parent |-> NULL]
           ELSE [status |-> 0, parent |-> folderToDelete.data.parent_id]

\* .update({folder_id: null}).eq('folder_id', id).eq('user_id', user)
UncategorizePages(rows, user, folderId) ==
  {IF p.folder_id = folderId /\ p.user_id = user
   THEN [p EXCEPT !.folder_id = NULL] ELSE p : p \in rows}

\* .update({parent_id: folderToDelete.parent_id}).eq('parent_id', id)
\* .eq('user_id', user)
ReparentSubfolders(fs, user, folderId, parent) ==
  {IF f.parent_id = folderId /\ f.user_id = user
   THEN [f EXCEPT !.parent_id = parent] ELSE f : f \in fs}

\* .delete().eq('id', id).eq('user_id', user), with the rows that go by
\* ON DELETE CASCADE and the pages set back by ON DELETE SET NULL
DeleteFolderRow(rows, fs, user, folderId) ==
  LET gone == IF \E f \in fs : f.id = folderId /\ f.user_id = user
              THEN Cascade(fs, {folderId}) ELSE {}
  IN  [pages |-> {IF p.folder_id \in gone
                  THEN [p EXCEPT !.folder_id = NULL] ELSE p : p \in rows},
       folders |-> {f \in fs : f.id \notin gone}]

\* a delete whose statements are one transaction: a failure undoes them all
DeleteFolderSteps_atomic(rows, fs, user, folderId, failAt) ==
  LET look == DeleteFolderLookup(fs, user, folderId)
      del  == DeleteFolderRow(
                UncategorizePages(rows, user, folderId),
                ReparentSubfolders(fs, user, folderId, look.parent),
                user, folderId)
  IN  IF look.status # 0
      THEN [pages |-> rows, folders |-> fs, status |-> look.status,
            error |-> "none"]
      ELSE IF failAt # "none"
      THEN [pages |-> rows, folders |-> fs, status |-> 500, error |-> failAt]
      ELSE [pages |-> del.pages, folders |-> del.folders, status |-> 200,
            error |-> "none"]

\* the DELETE case of the folders handler, where the store refuses the
\* statement failAt ("none": it refuses none)
DeleteFolderSteps(rows, fs, user, folderId, failAt) ==
  LET look  == DeleteFolderLookup(fs, user, folderId)
      rows1 == UncategorizePages(rows, user, folderId)
      fs1   == ReparentSubfolders(fs, user, folderId, look.parent)
      del   == DeleteFolderRow(rows1, fs1, user, folderId)
  IN  IF look.status # 0
      THEN [pages |-> rows, folders |-> fs, status |-> look.status,
            error |-> "none"]
      ELSE IF failAt = "pages"
      THEN [pages |-> rows, folders |-> fs, status |-> 500,
            error |-> "pages"]
      ELSE IF failAt = "subfolders"
      THEN [pages |-> rows1, folders |-> fs, status |-> 500,
            error |-> "subfolders"]
      ELSE IF failAt = "delete"
      THEN [pages |-> rows1, folders |-> fs1, status |-> 500,
            error |-> "delete"]
      ELSE [pages |-> del.pages, folders |-> del.folders, status |-> 200,
            error |-> "none"]

\* the DELETE case of the folders handler
DeleteFolderHandler(rows, fs, user, folderId) ==
  LET out == DeleteFolderSteps(rows, fs, user, folderId, "none")
  IN  [pages |-> out.pages, folders |-> out.folders, status |-> out.status]

(* ------------------------- editor: publish ------------------------------ *)

\* handlePublish's check before the request is sent: a slug that is not
\* blank and matches /^[a-zA-Z0-9_/\-]+$/
handlePublishSlugOk(slug) ==
  /\ \E i \in 1..Len(slug) : slug[i] \notin Whitespace
  /\ \A i \in 1..Len(slug) : SlugChar(slug[i]) \/ slug[i] = "/"

(* --------------------------------- reads -------------------------------- *)

\* ORDER BY k DESC over rows given as [k, id] pairs
RECURSIVE OrderDesc(_)
OrderDesc(S) ==
  IF S = {} THEN << >>
  ELSE LET top == CHOOSE x \in S : \A y \in S : y.k <= x.k
       IN  <<top.id>> \o OrderDesc(S \ {top})

\* the ids of a sequence
Range(q) == {q[i] : i \in 1..Len(q)}

\* GET pages: .eq('user_id').is('deleted_at', null).order('created_at' desc)
listActivePages(rows, user) ==
  OrderDesc({[k |-> p.created_at, id |-> p.id] :
             p \in {q \in rows : q.user_id = user /\ q.deleted_at = NULL}})

\* GET pages: .eq('user_id').not('deleted_at','is',null).order('deleted_at' desc)
listDeletedPages(rows, user) ==
  OrderDesc({[k |-> p.deleted_at, id |-> p.id] :
             p \in {q \in rows : q.user_id = user /\ q.deleted_at # NULL}})

\* GET /[slug]: .eq('slug', slug).single(), then the markdown is rendered
getServerSideProps(rows, slug) ==
  IF Len(slug) = 0 THEN [notFound |-> TRUE, content |-> ""]
  ELSE LET page == Single({p \in rows : p.slug = slug})
       IN  IF page.error # "none"
           THEN [notFound |-> TRUE, content |-> ""]
           ELSE [notFound |-> FALSE, content |-> page.data.markdown]

\* the rows with the given ids, in that order
RowsOf(ids, rows) ==
  [i \in 1..Len(ids) |-> CHOOSE r \in rows : r.id = ids[i]]

\* GET folders: .eq('user_id', user.id).order('name'); rows of equal name
\* come in no stated order, so the answer is kept as a set
listFolders(fs, user) == {f \in fs : f.user_id = user}

\* the dashboard's getServerSideProps: three queries with the service key
\* and no user filter; created_at of a folder grows with its SERIAL id
getDashboardProps(rows, fs) ==
  [pages |->
     RowsOf(OrderDesc({[k |-> p.created_at, id |-> p.id] :
                       p \in {q \in rows : q.deleted_at = NULL}}), rows),
   deletedPages |->
     RowsOf(OrderDesc({[k |-> p.deleted_at, id |-> p.id] :
                       p \in {q \in rows : q.deleted_at # NULL}}), rows),
   folders |->
     RowsOf(OrderDesc({[k |-> f.id, id |-> f.id] : f \in fs}), fs)]

\* GET export: every page (deleted ones on request) and every folder
exportHandler(rows, fs, includeDeleted) ==
  [pages |->
     RowsOf(OrderDesc({[k |-> p.created_at, id |-> p.id] :
                       p \in {q \in rows :
                                includeDeleted \/ q.deleted_at = NULL}}),
            rows),
   folders |-> fs]

(* -------------------------------- sidebar ------------------------------- *)

\* the SidebarItem of a folder: id `folder-${folderId}`
FolderItem(folder, pageCount, level) ==
  [id |-> <<"folder", folder.id>>, type |-> "folder", name |-> folder.name,
   folderId |-> NULL, pageCount |-> pageCount, level |-> level]

\* the SidebarItem of a page: id `page-${page.id}`
PageItem(page, level) ==
  [id |-> <<"page", page.id>>, type |-> "page", name |-> page.slug,
   folderId |-> page.folder_id, pageCount |-> NULL, level |-> level]

\* the SidebarItem of the trash folder
TrashItem(pageCount) ==
  [id |-> <<"trash">>, type |-> "folder", name |-> "Trash",
   folderId |-> NULL, pageCount |-> pageCount, level |-> 0]

\* the pushes of a forEach, one after the other
RECURSIVE Concat(_)
Concat(seqs) ==
  IF seqs = << >> THEN << >> ELSE Head(seqs) \o Concat(Tail(seqs))

\* processFolder: the folder, its pages, then each child folder in turn
RECURSIVE processFolder(_, _, _, _)
processFolder(fs, ps, folderId, level) ==
  LET found == SelectSeq(fs, LAMBDA f : f.id = folderId)
  IN  IF found = << >> THEN << >>
      ELSE LET folderPages == SelectSeq(ps, LAMBDA q : q.folder_id = folderId)
               childFolders == SelectSeq(fs, LAMBDA f : f.parent_id = folderId)
           IN  <<FolderItem(found[1], Len(folderPages), level)>>
                 \o [i \in 1..Len(folderPages) |->
                       PageItem(folderPages[i], level + 1)]
                 \o Concat([i \in 1..Len(childFolders) |->
                              processFolder(fs, ps, childFolders[i].id,
                                            level + 1)])

\* a sidebar that lists the leftover pages before the folders
SidebarItems_pages_first(ps, dps, fs) ==
  LET topLevelFolders == SelectSeq(fs, LAMBDA f : f.parent_id = NULL)
      uncategorizedPages == SelectSeq(ps, LAMBDA q : q.folder_id = NULL)
  IN  [i \in 1..Len(uncategorizedPages) |-> PageItem(uncategorizedPages[i], 0)]
        \o Concat([i \in 1..Len(topLevelFolders) |->
                     processFolder(fs, ps, topLevelFolders[i].id, 0)])
        \o (IF Len(dps) > 0 THEN <<TrashItem(Len(dps))>> ELSE << >>)

\* the sidebarItems memo of the dashboard
SidebarItems(ps, dps, fs) ==
  LET topLevelFolders == SelectSeq(fs, LAMBDA f : f.parent_id = NULL)
      inFolders == Concat([i \in 1..Len(topLevelFolders) |->
                             processFolder(fs, ps, topLevelFolders[i].id, 0)])
      processedPageIds == {inFolders[i].id[2] :
                             i \in {j \in 1..Len(inFolders) :
                                      inFolders[j].type = "page"}}
      uncategorizedPages ==
        SelectSeq(ps, LAMBDA q : q.folder_id = NULL
                                   /\ q.id \notin processedPageIds)
  IN  inFolders
        \o [i \in 1..Len(uncategorizedPages) |-> PageItem(uncategorizedPages[i], 0)]
        \o (IF Len(dps) > 0 THEN <<TrashItem(Len(dps))>> ELSE << >>)

(* -------------------------------- upload -------------------------------- *)

\* 1024 * 1024 bytes
MB == 1024 * 1024

\* a MIME type "top/sub" is the pair <<top, sub>>, the empty string << >>;
\* file.type.startsWith('image/')
IsImageType(type) == Len(type) = 2 /\ type[1] = "image"

AudioTypes == {<<"audio", "mp3">>, <<"audio", "wav">>, <<"audio", "mpeg">>}

VideoTypes == {<<"video", "mp4">>, <<"video", "quicktime">>,
               <<"image", "heic">>, <<"image", "heif">>}

\* a size limit of 10 MB for every kind
maxSize_ten_for_all(kind) == 10 * MB

\* const maxSize = type === 'image' ? 5 MB : 10 MB
maxSize(kind) == IF kind = "image" THEN 5 * MB ELSE 10 * MB

\* the checks of uploadFile before setIsUploading(true): "ok" or the alert.
\* f.loaded tells whether the video element loads the metadata
\* (onloadedmetadata) or fails (onerror); f.duration is video.duration
UploadValidate(f, kind) ==
  IF kind = "image" /\ ~IsImageType(f.type) THEN "type"
  ELSE IF kind = "audio" /\ f.type \notin AudioTypes THEN "type"
  ELSE IF kind = "video" /\ f.type \notin VideoTypes THEN "type"
  ELSE IF f.size > maxSize(kind) THEN "size"
  ELSE IF kind = "video" /\ ~f.loaded THEN "duration-unknown"
  ELSE IF kind = "video" /\ f.duration > 30 THEN "duration"
  ELSE "ok"

\* uploadFile: the checks, the HEIC conversion of an image (converts tells
\* whether heic2any succeeds) and the storage upload
uploadFile(sent, f, kind, converts) ==
  LET v == UploadValidate(f, kind)
      heic == kind = "image" /\ f.type \in {<<"image", "heic">>,
                                             <<"image", "heif">>}
  IN  IF v # "ok" THEN [storage |-> sent, alert |-> v]
      ELSE IF heic /\ ~converts
      THEN [storage |-> sent, alert |-> "failed"]
      ELSE [storage |-> Append(sent,
                        [bucketName |-> IF kind = "image" THEN "images"
                                        ELSE IF kind = "audio" THEN "audio"
                                        ELSE "videos",
                         kind |-> kind,
                         type |-> IF heic THEN <<"image", "jpeg">>
                                  ELSE f.type]),
            alert |-> "none"]

\* the kind handleDrop gives a dropped file, "none" when it takes none
DropKind(f) ==
  IF IsImageType(f.type) THEN "image"
  ELSE IF f.type \in AudioTypes THEN "audio"
  ELSE IF f.type \in VideoTypes THEN "video"
  ELSE "none"

(* -------------------------------- actions ------------------------------ *)

Response(op, status, action, error) ==
  [op |-> op, status |-> status, action |-> action, error |-> error]

\* no file chosen yet
NoFile == [type |-> << >>, size |-> 0, loaded |-> FALSE, duration |-> 0]

\* empty tables, fresh sequences
InitStore ==
  /\ pages = {}
  /\ folders = {}
  /\ nextPageId = 1
  /\ nextFolderId = 1
  /\ now = 1
  /\ inflight = << >>
  /\ deleting = {}
  /\ resp = Response("none", 0, "none", "none")

\* a browser that has loaded nothing
InitClient ==
  /\ props = [pages |-> << >>, deletedPages |-> << >>, folders |-> << >>]
  /\ sidebarItems = << >>
  /\ file = NoFile
  /\ storage = << >>

Init == InitStore /\ InitClient

\* ids a request may name: NULL, every id handed out so far, and one that
\* was never handed out
PageIdInputs == 0..nextPageId

FolderIdInputs == 0..nextFolderId

\* how a request names a page: by id, by slug, or by both with a short slug
TargetInputs ==
  {t \in PageIdInputs \X SlugInputs : t[1] = NULL \/ Len(t[2]) <= 1}

\* POST /api/publish served as a whole
Publish(user, markdown, slug, folderId) ==
  /\ now <= MaxClock
  /\ LET out == PublishHandler(pages, folders, user, markdown, slug, folderId,
                               now, nextPageId)
     IN  /\ pages' = out.pages
         /\ nextPageId' = IF out.insert THEN nextPageId + 1 ELSE nextPageId
         /\ now' = IF out.status \in {400, 401} THEN now ELSE now + 1
         /\ resp' = Response("publish", out.status, out.action, out.error)
  /\ UNCHANGED <<folders, nextFolderId, inflight, client, deleting>>

\* POST /api/publish up to the await of the existence check
PublishCheck(user, markdown, slug, folderId) ==
  /\ Len(inflight) < MaxInflight
  /\ now + Len(inflight) <= MaxClock
  /\ LET v == PublishValidate(folders, user, markdown, slug, folderId)
     IN  IF v.status # 0
         THEN /\ resp' = Response("publish", v.status, "none", v.error)
              /\ UNCHANGED inflight
         ELSE /\ inflight' = Append(inflight,
                   [user |-> user, markdown |-> markdown, slug |-> slug,
                    folderId |-> folderId,
                    existing |-> PublishFetch(pages, user, slug)])
              /\ UNCHANGED resp
  /\ UNCHANGED <<pages, folders, nextPageId, nextFolderId, now, client, deleting>>

\* the rest of a publish request: the update or the insert, and the answer
PublishFinish(i) ==
  /\ i \in 1..Len(inflight)
  /\ LET r == inflight[i]
         out == PublishWrite(pages, folders, r.existing, r.user, r.markdown,
                             r.slug, r.folderId, now, nextPageId)
     IN  /\ pages' = out.pages
         /\ nextPageId' = IF out.insert THEN nextPageId + 1 ELSE nextPageId
         /\ resp' = Response("publish", out.status, out.action, out.error)
  /\ now' = now + 1
  /\ inflight' = [j \in 1..(Len(inflight) - 1) |->
                    IF j < i THEN inflight[j] ELSE inflight[j + 1]]
  /\ UNCHANGED <<folders, nextFolderId, client, deleting>>

\* /api/delete-page
DeletePage(method, user, pageId, slug) ==
  /\ now <= MaxClock
  /\ LET out == DeletePageHandler(pages, method, user, pageId, slug, now)
     IN  /\ pages' = out.pages
         /\ now' = IF out.status = 200 THEN now + 1 ELSE now
         /\ resp' = Response("delete", out.status, "none", "none")
  /\ UNCHANGED <<folders, nextPageId, nextFolderId, inflight, client, deleting>>

\* the dashboard's restore button
RestorePage(pageId) ==
  /\ \E p \in pages : p.id = pageId /\ p.deleted_at # NULL
  /\ LET out == RestorePageRequest(pages, pageId, now)
     IN  /\ pages' = out.pages
         /\ now' = IF out.status = 200 THEN now + 1 ELSE now
         /\ resp' = Response("restore", out.status, "none", "none")
  /\ UNCHANGED <<folders, nextPageId, nextFolderId, inflight, client, deleting>>

\* POST /api/move-page
MovePage(user, pageId, slug, folderId) ==
  /\ now <= MaxClock
  /\ LET out == MovePageHandler(pages, folders, user, pageId, slug, folderId,
                                now)
     IN  /\ pages' = out.pages
         /\ now' = IF out.status = 200 THEN now + 1 ELSE now
         /\ resp' = Response("move", out.status, "none", "none")
  /\ UNCHANGED <<folders, nextPageId, nextFolderId, inflight, client, deleting>>

\* POST /api/folders
CreateFolder(user, name) ==
  /\ nextFolderId <= MaxFolders
  /\ LET out == CreateFolderHandler(folders, user, name, nextFolderId)
     IN  /\ folders' = out.folders
         /\ nextFolderId' = IF out.insert THEN nextFolderId + 1
                            ELSE nextFolderId
         /\ resp' = Response("folder", out.status, "none", "none")
  /\ UNCHANGED <<pages, nextPageId, now, inflight,
                 client, deleting>>

\* GET /[slug]
ViewSlug(slug) ==
  /\ resp' = Response("view",
                      IF getServerSideProps(pages, slug).notFound
                      THEN 404 ELSE 200, "none", "none")
  /\ UNCHANGED <<pages, folders, nextPageId, nextFolderId, now, inflight,
                 client, deleting>>

\* GET /api/pages
ListPages(user) ==
  /\ resp' = Response("list", IF user = NoUser THEN 401 ELSE 200,
                      "none", "none")
  /\ UNCHANGED <<pages, folders, nextPageId, nextFolderId, now, inflight,
                 client, deleting>>

\* targetParentId values a request may carry
TargetParentInputs ==
  {[type |-> "null", id |-> NULL]}
    \cup {[type |-> t, id |-> k] : t \in {"number", "string"},
                                  k \in 1..nextFolderId}

\* POST /api/move-folder served as a whole
MoveFolder(folderId, tp) ==
  /\ \E desc \in isDescendant(folders, tp.id, folderId),
        eqNull \in EqNullOutcomes :
       LET out == MoveFolderHandler(folders, folderId, tp, desc, eqNull)
       IN  /\ folders' = out.folders
           /\ resp' = Response("move-folder", out.status, "none", out.error)
  /\ UNCHANGED <<pages, nextPageId, nextFolderId, now, inflight,
                 client, deleting>>

\* POST /api/move-folder up to the await of its update
MoveFolderCheck(folderId, tp) ==
  /\ Len(inflight) < MaxInflight
  /\ \E desc \in isDescendant(folders, tp.id, folderId),
        eqNull \in EqNullOutcomes :
       LET v == MoveFolderValidate(folders, folderId, tp, desc, eqNull)
       IN  IF v.status # 0
           THEN /\ resp' = Response("move-folder", v.status, "none", v.error)
                /\ UNCHANGED inflight
           ELSE /\ inflight' = Append(inflight,
                     [folderId |-> folderId, parent |-> ParentValue(tp)])
                /\ UNCHANGED resp
  /\ UNCHANGED <<pages, folders, nextPageId, nextFolderId, now, client, deleting>>

\* the rest of a move-folder request: the update and the answer
MoveFolderFinish(i) ==
  /\ i \in 1..Len(inflight)
  /\ LET r == inflight[i]
         out == MoveFolderUpdate(folders, r.folderId, r.parent)
     IN  /\ folders' = out.folders
         /\ resp' = Response("move-folder", out.status, "none", out.error)
  /\ inflight' = [j \in 1..(Len(inflight) - 1) |->
                    IF j < i THEN inflight[j] ELSE inflight[j + 1]]
  /\ UNCHANGED <<pages, nextPageId, nextFolderId, now, client, deleting>>

\* DELETE /api/folders?folderId=
DeleteFolder(user, folderId) ==
  /\ LET out == DeleteFolderHandler(pages, folders, user, folderId)
     IN  /\ pages' = out.pages
         /\ folders' = out.folders
         /\ resp' = Response("folder-delete", out.status, "none", "none")
  /\ UNCHANGED <<nextPageId, nextFolderId, now, inflight,
                 client, deleting>>

\* DELETE /api/folders?folderId= up to the await of its first update
DeleteFolderBegin(user, folderId) ==
  /\ Cardinality(deleting) < MaxDeleting
  /\ LET look == DeleteFolderLookup(folders, user, folderId)
     IN  IF look.status # 0
         THEN /\ resp' = Response("folder-delete", look.status, "none", "none")
              /\ UNCHANGED deleting
         ELSE /\ deleting' = deleting \cup
                   {[user |-> user, folderId |-> folderId,
                     parent |-> look.parent, step |-> "pages"]}
              /\ UNCHANGED resp
  /\ UNCHANGED <<pages, folders, nextPageId, nextFolderId, now, inflight,
                 client>>

\* the store refuses the statement a folder delete has reached: 500
DeleteFolderFail(r) ==
  /\ r \in deleting
  /\ deleting' = deleting \ {r}
  /\ resp' = Response("folder-delete", 500, "none", r.step)
  /\ UNCHANGED <<pages, folders, nextPageId, nextFolderId, now, inflight,
                 client>>

\* the first statement of a folder delete: its pages become uncategorized
DeleteFolderPagesStep(r) ==
  /\ r \in deleting /\ r.step = "pages"
  /\ pages' = UncategorizePages(pages, r.user, r.folderId)
  /\ deleting' = (deleting \ {r}) \cup {[r EXCEPT !.step = "subfolders"]}
  /\ UNCHANGED <<folders, nextPageId, nextFolderId, now, inflight, resp,
                 client>>

\* the second statement: its subfolders go to the parent read at the lookup
DeleteFolderSubfoldersStep(r) ==
  /\ r \in deleting /\ r.step = "subfolders"
  /\ IF /\ \E f \in folders : f.parent_id = r.folderId /\ f.user_id = r.user
        /\ ~folder_fk(folders, r.parent)
     THEN /\ deleting' = deleting \ {r}
          /\ resp' = Response("folder-delete", 500, "none", "subfolders")
          /\ UNCHANGED folders
     ELSE /\ folders' = ReparentSubfolders(folders, r.user, r.folderId,
                                           r.parent)
          /\ deleting' = (deleting \ {r}) \cup {[r EXCEPT !.step = "delete"]}
          /\ UNCHANGED resp
  /\ UNCHANGED <<pages, nextPageId, nextFolderId, now, inflight, client>>

\* the third statement: the row is deleted, and the answer
DeleteFolderRowStep(r) ==
  /\ r \in deleting /\ r.step = "delete"
  /\ LET out == DeleteFolderRow(pages, folders, r.user, r.folderId)
     IN  /\ pages' = out.pages
         /\ folders' = out.folders
  /\ deleting' = deleting \ {r}
  /\ resp' = Response("folder-delete", 200, "none", "none")
  /\ UNCHANGED <<nextPageId, nextFolderId, now, inflight, client>>

\* GET /api/folders
ListFolders(user) ==
  /\ resp' = Response("folders", IF user = NoUser THEN 401 ELSE 200,
                      "none", "none")
  /\ UNCHANGED <<pages, folders, nextPageId, nextFolderId, now, inflight,
                 client, deleting>>

\* GET /dashboard
LoadDashboard ==
  /\ resp' = Response("dashboard", 200, "none", "none")
  /\ UNCHANGED <<pages, folders, nextPageId, nextFolderId, now, inflight,
                 client, deleting>>

\* GET /api/export
Export(includeDeleted) ==
  /\ resp' = Response("export", 200, "none", "none")
  /\ UNCHANGED <<pages, folders, nextPageId, nextFolderId, now, inflight,
                 client, deleting>>

Callers == Users \cup {NoUser}

Next ==
  \/ \E u \in Callers, m \in MarkdownInputs, s \in SlugInputs,
        f \in FolderIdInputs : Publish(u, m, s, f)
  \/ \E md \in {"DELETE", "POST"}, u \in Callers, t \in TargetInputs :
        DeletePage(md, u, t[1], t[2])
  \/ \E id \in PageIdInputs : RestorePage(id)
  \/ \E u \in Callers, t \in TargetInputs, f \in FolderIdInputs :
        MovePage(u, t[1], t[2], f)
  \/ \E u \in Callers, n \in FolderNameInputs : CreateFolder(u, n)
  \/ \E s \in SlugInputs : ViewSlug(s)
  \/ \E u \in Callers : ListPages(u)

Spec == Init /\ [][Next]_vars

NextConc ==
  \/ \E u \in Callers, m \in MarkdownInputs, s \in SlugInputs,
        f \in FolderIdInputs : PublishCheck(u, m, s, f)
  \/ \E i \in 1..MaxInflight : PublishFinish(i)
  \/ \E md \in {"DELETE", "POST"}, u \in Callers, t \in TargetInputs :
        DeletePage(md, u, t[1], t[2])
  \/ \E u \in Callers, t \in TargetInputs, f \in FolderIdInputs :
        MovePage(u, t[1], t[2], f)
  \/ \E u \in Callers, n \in FolderNameInputs : CreateFolder(u, n)

SpecConc == Init /\ [][NextConc]_vars

\* the folder tree, every handler served as a whole
NextFolders ==
  \/ \E u \in Callers, n \in FolderNameInputs : CreateFolder(u, n)
  \/ \E id \in FolderIdInputs, tp \in TargetParentInputs : MoveFolder(id, tp)
  \/ \E u \in Callers, id \in FolderIdInputs : DeleteFolder(u, id)
  \/ \E u \in Callers : ListFolders(u)

SpecFolders == Init /\ [][NextFolders]_vars

\* the folder tree under move-folder requests whose steps interleave
NextFoldersConc ==
  \/ \E u \in Callers, n \in FolderNameInputs :
        nextFolderId <= MaxFoldersConc /\ CreateFolder(u, n)
  \/ \E id \in FolderIdInputs, tp \in TargetParentInputs :
        MoveFolderCheck(id, tp)
  \/ \E i \in 1..MaxInflight : MoveFolderFinish(i)
  \/ \E u \in Callers, id \in FolderIdInputs : DeleteFolder(u, id)

SpecFoldersConc == Init /\ [][NextFoldersConc]_vars

\* pages filed in folders, every handler served as a whole
NextOrganize ==
  \/ \E u \in Callers, n \in FolderNameInputs :
        nextFolderId <= MaxFoldersOrganize /\ CreateFolder(u, n)
  \/ \E id \in FolderIdInputs, tp \in TargetParentInputs : MoveFolder(id, tp)
  \/ \E u \in Callers, id \in FolderIdInputs : DeleteFolder(u, id)
  \/ \E u \in Callers, f \in FolderIdInputs : Publish(u, "m1", <<"a">>, f)
  \/ \E u \in Callers, id \in PageIdInputs, f \in FolderIdInputs :
        MovePage(u, id, << >>, f)
  \/ \E u \in Callers : ListPages(u)
  \/ LoadDashboard
  \/ \E d \in BOOLEAN : Export(d)

SpecOrganize == Init /\ [][NextOrganize]_vars

\* one slug published, soft-deleted and published again, the publish split
\* at its await
NextRepublish ==
  \/ \E u \in Callers, n \in FolderNameInputs :
        nextFolderId <= MaxFoldersRepublish /\ CreateFolder(u, n)
  \/ \E u \in Callers, m \in MarkdownInputs, f \in FolderIdInputs :
        PublishCheck(u, m, <<"a">>, f)
  \/ \E i \in 1..MaxInflight : PublishFinish(i)
  \/ \E u \in Callers, t \in TargetInputs : DeletePage("DELETE", u, t[1], t[2])
  \/ \E u \in Callers : ListPages(u)

SpecRepublish == Init /\ [][NextRepublish]_vars

\* the owner whose requests SpecOwner serves, and the names they give
Owner == "u1"

OwnerFolderNames == {<<"n">>, <<"m">>}

\* one owner's folders under two names, move-folder split at the await of
\* its update so that steps of different requests interleave
NextOwner ==
  \/ \E n \in OwnerFolderNames :
        nextFolderId <= MaxFoldersOwner /\ CreateFolder(Owner, n)
  \/ \E id \in FolderIdInputs, tp \in TargetParentInputs :
        Len(inflight) < MaxMoving /\ MoveFolderCheck(id, tp)
  \/ \E i \in 1..MaxInflight : MoveFolderFinish(i)
  \/ \E id \in FolderIdInputs : DeleteFolder(Owner, id)

SpecOwner == Init /\ [][NextOwner]_vars

\* one owner's folders and pages, folder delete served statement by
\* statement with other requests in between
NextDeleteSteps ==
  \/ \E n \in OwnerFolderNames :
        nextFolderId <= MaxFoldersSteps /\ CreateFolder(Owner, n)
  \/ \E id \in FolderIdInputs,
        tp \in {t \in TargetParentInputs : t.type # "string"} :
        MoveFolder(id, tp)
  \/ \E id \in FolderIdInputs : DeleteFolderBegin(Owner, id)
  \/ \E r \in deleting : DeleteFolderPagesStep(r)
  \/ \E r \in deleting : DeleteFolderSubfoldersStep(r)
  \/ \E r \in deleting : DeleteFolderRowStep(r)
  \/ \E r \in deleting : DeleteFolderFail(r)
  \/ \E f \in FolderIdInputs : Publish(Owner, "m1", <<"a">>, f)

SpecDeleteSteps == Init /\ [][NextDeleteSteps]_vars

\* the lists a dashboard may hold. The three queries of the load are not
\* one snapshot and the store has no rule against a folder above itself,
\* so a parent_id or folder_id may name a folder that is not in the list
\* or is its own ancestor.
FolderNameOf(id) == IF id = 1 THEN "Projects" ELSE IF id = 2 THEN "Web" ELSE "More"

\* the slugs p0, p1, ... of the listed pages
PageSlugOf(id) ==
  <<"p", <<"0", "1", "2", "3", "4", "5", "6", "7", "8", "9">>[id + 1]>>

\* folder lists: some of the folders, newest or oldest first
FolderListInputs ==
  LET ids == 1..MaxSidebarFolders
      Orders == UNION {{q \in [1..Cardinality(S) -> S] :
                          \/ \A i, j \in DOMAIN q : i < j => q[i] < q[j]
                          \/ \A i, j \in DOMAIN q : i < j => q[i] > q[j]}
                       : S \in SUBSET ids}
  IN  UNION {{[i \in DOMAIN q |->
                 [id |-> q[i], name |-> FolderNameOf(q[i]),
                  parent_id |-> par[q[i]]]] : par \in [ids -> {NULL} \cup ids]}
             : q \in Orders}

\* active page lists: pages 1..n, each in some folder or in none
PageListInputs ==
  UNION {{[i \in 1..n |->
             [id |-> i, slug |-> PageSlugOf(i), folder_id |-> fo[i],
              deleted_at |-> NULL]] : fo \in [1..n -> 0..MaxSidebarFolders]}
         : n \in 0..MaxSidebarPages}

\* deleted page lists: none or one
DeletedListInputs ==
  {<< >>, <<[id |-> MaxSidebarPages + 1, slug |-> PageSlugOf(0),
             folder_id |-> NULL, deleted_at |-> 1]>>}

InitSidebar ==
  /\ InitStore
  /\ props \in [pages : PageListInputs, deletedPages : DeletedListInputs,
                 folders : FolderListInputs]
  /\ sidebarItems = << >>
  /\ file = NoFile
  /\ storage = << >>

\* the dashboard renders: the memo is computed from the lists
Render ==
  /\ sidebarItems' = SidebarItems(props.pages, props.deletedPages,
                                  props.folders)
  /\ UNCHANGED <<pages, folders, nextPageId, nextFolderId, now, inflight,
                 deleting, resp, props, file, storage>>

NextSidebar == Render

SpecSidebar == InitSidebar /\ [][NextSidebar]_vars

\* the three pickers of the editor
Kinds == {"image", "audio", "video"}

\* files a user may pick
FileInputs ==
  [type : {<<"image", "png">>, <<"image", "heic">>, <<"image", "heif">>,
           <<"audio", "mp3">>, <<"audio", "mpeg">>, <<"audio", "wav">>,
           <<"audio", "ogg">>, <<"video", "mp4">>, <<"video", "quicktime">>,
           <<"video", "webm">>, <<"text", "plain">>, << >>},
   size : {1, 5 * MB, 5 * MB + 1, 6 * MB, 10 * MB, 10 * MB + 1},
   loaded : {TRUE},
   duration : {29, 30, 31}]
  \cup
  [type : {<<"image", "png">>, <<"image", "heic">>, <<"video", "mp4">>,
           <<"video", "quicktime">>, <<"audio", "mp3">>},
   size : {1, 10 * MB},
   loaded : {FALSE},
   duration : {0}]

InitUpload ==
  /\ InitStore
  /\ props = [pages |-> << >>, deletedPages |-> << >>, folders |-> << >>]
  /\ sidebarItems = << >>
  /\ file \in FileInputs
  /\ storage = << >>

\* handleImageSelect, handleAudioSelect, handleVideoSelect
SelectFile(kind, converts) ==
  /\ Len(storage) < MaxUploads
  /\ LET out == uploadFile(storage, file, kind, converts)
     IN  /\ storage' = out.storage
         /\ resp' = Response("upload", 0, kind, out.alert)
  /\ UNCHANGED <<pages, folders, nextPageId, nextFolderId, now, inflight,
                 deleting, props, sidebarItems, file>>

\* handleDrop of the editor
DropFile(converts) ==
  /\ Len(storage) < MaxUploads
  /\ LET kind == DropKind(file)
         out == uploadFile(storage, file, kind, converts)
     IN  IF kind = "none"
         THEN /\ resp' = Response("upload", 0, "none", "drop")
              /\ UNCHANGED storage
         ELSE /\ storage' = out.storage
              /\ resp' = Response("upload", 0, kind, out.alert)
  /\ UNCHANGED <<pages, folders, nextPageId, nextFolderId, now, inflight,
                 deleting, props, sidebarItems, file>>

NextUpload ==
  \/ \E k \in Kinds, c \in BOOLEAN : SelectFile(k, c)
  \/ \E c \in BOOLEAN : DropFile(c)

SpecUpload == InitUpload /\ [][NextUpload]_vars

(* -------------------------------- claims ------------------------------- *)

PageIds(rows) == {p.id : p \in rows}

\* C1: after any sequence of publish, delete-page and move-page requests,
\* interleaved publish requests included, no two rows of the pages table
\* have the same (user_id, slug), active or soft-deleted.
C1_UniqueUserSlug ==
  /\ \A p, q \in pages :
       (p.user_id = q.user_id /\ p.slug = q.slug) => p = q
  /\ Cardinality(PageIds(pages)) = Cardinality(pages)

\* two publish requests both saw no row and the second insert was refused
C1_Witness ==
  /\ resp.op = "publish" /\ resp.error = "unique"
  /\ \E p \in pages : p.user_id \in Users

\* C2: a valid publish(owner, slug, markdown, folderId) served as a whole
\* updates the markdown, folder_id and updated_at of the owner's existing
\* row for that slug (active or soft-deleted), adds no row and answers
\* 'updated'; when the owner has no such row it inserts exactly one row
\* owned by the caller with deleted_at null and answers 'created'.
C2_PublishUpserts ==
  \A u \in Users, m \in MarkdownInputs, s \in SlugInputs,
     f \in FolderIdInputs :
    PublishValidate(folders, u, m, s, f).status = 0 =>
      LET out == PublishHandler(pages, folders, u, m, s, f, now, nextPageId)
          mine == {p \in pages : p.user_id = u /\ p.slug = s}
      IN  IF mine # {}
          THEN /\ out.status = 200 /\ out.action = "updated"
               /\ PageIds(out.pages) = PageIds(pages)
               /\ Cardinality(out.pages) = Cardinality(pages)
               /\ \A p \in mine :
                    [p EXCEPT !.markdown = m, !.folder_id = f,
                              !.updated_at = now] \in out.pages
          ELSE /\ out.status = 201 /\ out.action = "created"
               /\ pages \subseteq out.pages
               /\ Cardinality(out.pages \ pages) = 1
               /\ \A q \in out.pages \ pages :
                    /\ q.user_id = u /\ q.slug = s /\ q.markdown = m
                    /\ q.folder_id = f /\ q.deleted_at = NULL
                    /\ q.id \notin PageIds(pages)

\* a publish has just updated an existing row
C2_Witness ==
  /\ resp.op = "publish" /\ resp.action = "updated"
  /\ \E p \in pages : p.updated_at > p.created_at

\* C3: a publish request of user A changes no page owned by another user.
C3_PublishLeavesOtherUsersPages ==
  \A u \in Users, m \in MarkdownInputs, s \in SlugInputs,
     f \in FolderIdInputs :
    LET out == PublishHandler(pages, folders, u, m, s, f, now, nextPageId)
    IN  \A p \in pages : p.user_id # u => p \in out.pages

\* C4: a delete-page or move-page request of user A, by id or by slug,
\* changes no page owned by another user.
C4_DeleteMoveLeaveOtherUsersPages ==
  \A u \in Users, t \in TargetInputs, f \in FolderIdInputs :
    LET del == DeletePageHandler(pages, "DELETE", u, t[1], t[2], now)
        mov == MovePageHandler(pages, folders, u, t[1], t[2], f, now)
    IN  \A p \in pages :
          p.user_id # u => p \in del.pages /\ p \in mov.pages

\* C5: a publish request that saw no row at its existence check and whose
\* insert is then refused by the (user_id, slug) unique constraint is
\* handled as an update of the existing row, not answered with an error.
C5_LostInsertRetriesAsUpdate ==
  (resp.op = "publish" /\ resp.error = "unique") =>
    (resp.status = 200 /\ resp.action = "updated")

\* C6: publish served as a whole succeeds for every slug matching
\* ^[a-zA-Z0-9_-]+$ (given a credential, markdown and an own or no folder)
\* and answers 400 without writing for every other slug.
C6_SlugValidation ==
  \A u \in Users, m \in MarkdownInputs \ {""},
     s \in SlugInputs \cup {<<c>> : c \in {"Z", "7", "_", "-", " ", "."}} :
  \A f \in {g \in FolderIdInputs : PublishFolderOk(folders, u, g)} :
    LET out == PublishHandler(pages, folders, u, m, s, f, now, nextPageId)
        matches == /\ s \in Seq(Lower \cup Upper \cup Digit \cup {"_", "-"})
                   /\ s # << >>
    IN  IF matches
        THEN /\ out.status \in {200, 201}
             /\ \E q \in out.pages :
                  q.user_id = u /\ q.slug = s /\ q.markdown = m
        ELSE /\ out.status = 400
             /\ out.pages = pages
             /\ ~out.insert

\* a publish was just refused for its slug while pages exist
C6_Witness ==
  /\ resp.op = "publish" /\ resp.status = 400 /\ resp.error = "slug-format"
  /\ pages # {}

\* C7: GET /[slug] answers not-found for a slug whose pages are all
\* soft-deleted.
C7_DeletedPageNotRendered ==
  \A s \in SlugInputs :
    ( /\ \E p \in pages : p.slug = s /\ p.deleted_at # NULL
      /\ \A p \in pages : p.slug = s => p.deleted_at # NULL )
    => getServerSideProps(pages, s).notFound

\* C8: a successful delete-page keeps every row and stamps deleted_at on
\* the page it names; a soft-deleted page is absent from its owner's active
\* list, present in its owner's deleted list, and stays soft-deleted through
\* every publish, delete-page and move-page request.
C8_SoftDeleteKeepsRow ==
  LET deleted == {p \in pages : p.deleted_at # NULL}
      StillDeleted(rows) ==
        \A p \in deleted : \E q \in rows : q.id = p.id /\ q.deleted_at # NULL
  IN  /\ \A u \in Users, t \in TargetInputs :
           LET out == DeletePageHandler(pages, "DELETE", u, t[1], t[2], now)
           IN  out.status = 200 =>
                 /\ PageIds(out.pages) = PageIds(pages)
                 /\ Cardinality(out.pages) = Cardinality(pages)
                 /\ \E q \in out.pages :
                      /\ IF t[1] # NULL THEN q.id = t[1] ELSE q.slug = t[2]
                      /\ q.deleted_at # NULL
                      /\ q.id \notin
                           Range(listActivePages(out.pages, q.user_id))
                      /\ q.id \in
                           Range(listDeletedPages(out.pages, q.user_id))
      /\ \A p \in deleted :
           /\ p.id \notin Range(listActivePages(pages, p.user_id))
           /\ p.id \in Range(listDeletedPages(pages, p.user_id))
      /\ deleted # {} =>
           /\ \A u \in Callers, t \in TargetInputs :
                StillDeleted(DeletePageHandler(pages, "DELETE", u, t[1], t[2],
                                               now).pages)
           /\ \A u \in Callers, t \in TargetInputs, f \in FolderIdInputs :
                StillDeleted(MovePageHandler(pages, folders, u, t[1], t[2], f,
                                             now).pages)
           /\ \A u \in Callers, m \in MarkdownInputs, s \in SlugInputs,
                 f \in FolderIdInputs :
                StillDeleted(PublishHandler(pages, folders, u, m, s, f, now,
                                            nextPageId).pages)

\* a delete-page has just succeeded and its page is in the deleted list
C8_Witness ==
  /\ resp.op = "delete" /\ resp.status = 200
  /\ \E p \in pages :
       /\ p.deleted_at # NULL
       /\ p.id \in Range(listDeletedPages(pages, p.user_id))

\* C9: the dashboard's restore of a soft-deleted page sets deleted_at to
\* null, so that the page is in listActivePages and not in listDeletedPages,
\* with slug, markdown and folder_id as before the delete.
C9_RestoreClearsDeletedAt ==
  \A p \in pages :
    p.deleted_at # NULL =>
      LET out == RestorePageRequest(pages, p.id, now)
      IN  /\ out.status = 200
          /\ \E q \in out.pages :
               /\ q.id = p.id /\ q.deleted_at = NULL
               /\ q.slug = p.slug /\ q.markdown = p.markdown
               /\ q.folder_id = p.folder_id
               /\ q.id \in Range(listActivePages(out.pages, q.user_id))
               /\ q.id \notin Range(listDeletedPages(out.pages, q.user_id))

\* C10: a delete-page of an already soft-deleted page either fails or
\* leaves the row as it was, deleted_at included.
C10_DeleteOfDeletedIsNoOp ==
  \A p \in pages, u \in Users :
    p.deleted_at # NULL =>
      LET out == DeletePageHandler(pages, "DELETE", u, p.id, << >>, now)
      IN  out.status # 200 \/ out.pages = pages

\* the folders met by following parent_id from folder id, at most n steps
RECURSIVE AncestorsWithin(_, _, _)
AncestorsWithin(fs, id, n) ==
  IF n = 0 THEN {}
  ELSE LET up == {f.parent_id : f \in {g \in fs : g.id = id}} \ {NULL}
       IN  up \cup UNION {AncestorsWithin(fs, a, n - 1) : a \in up}

\* the folders above folder id
Ancestors(fs, id) == AncestorsWithin(fs, id, Cardinality(fs))

\* C11: a move-folder request whose target parent is the folder to move or
\* one of its descendants, at any depth, is answered 400 and leaves every
\* folder's parent_id as it was.
C11_MoveFolderRejectsCycle ==
  \A f \in folders, tp \in TargetParentInputs :
    (/\ \E t \in folders : t.id = ParentValue(tp)
     /\ (ParentValue(tp) = f.id \/ f.id \in Ancestors(folders, ParentValue(tp))))
    => \A desc \in isDescendant(folders, tp.id, f.id),
          eqNull \in EqNullOutcomes :
         LET out == MoveFolderHandler(folders, f.id, tp, desc, eqNull)
         IN  out.status = 400 /\ out.folders = folders

\* C12: after any sequence of folder create, move-folder and folder delete
\* requests, move-folder requests whose checks and updates interleave
\* included, no folder is its own ancestor.
C12_NoFolderIsItsOwnAncestor ==
  \A f \in folders : f.id \notin Ancestors(folders, f.id)

\* C13: a successful folder delete of F with former parent P sets folder_id
\* to null on exactly the pages that were in F, sets parent_id to P on
\* exactly the folders whose parent was F, removes F's row and changes no
\* other page or folder.
C13_FolderDeleteFlattensOneLevel ==
  \A u \in Users, F \in folders :
    LET out == DeleteFolderHandler(pages, folders, u, F.id)
    IN  out.status = 200 =>
          /\ out.pages = {IF p.folder_id = F.id
                          THEN [p EXCEPT !.folder_id = NULL] ELSE p
                          : p \in pages}
          /\ out.folders = {IF f.parent_id = F.id
                            THEN [f EXCEPT !.parent_id = F.parent_id] ELSE f
                            : f \in folders \ {F}}

\* C14: publish, delete-page, move-page, folder create, folder delete and
\* move-folder each answer 401 to a request without a valid credential and
\* leave pages and folders as they were.
C14_MutationsNeedCredential ==
  /\ \A m \in MarkdownInputs, s \in SlugInputs, f \in FolderIdInputs :
       LET out == PublishHandler(pages, folders, NoUser, m, s, f, now,
                                 nextPageId)
       IN  out.status = 401 /\ out.pages = pages
  /\ \A t \in TargetInputs, f \in FolderIdInputs :
       LET del == DeletePageHandler(pages, "DELETE", NoUser, t[1], t[2], now)
           mov == MovePageHandler(pages, folders, NoUser, t[1], t[2], f, now)
       IN  /\ del.status = 401 /\ del.pages = pages
           /\ mov.status = 401 /\ mov.pages = pages
  /\ \A n \in FolderNameInputs :
       LET out == CreateFolderHandler(folders, NoUser, n, nextFolderId)
       IN  out.status = 401 /\ out.folders = folders
  /\ \A id \in FolderIdInputs :
       LET out == DeleteFolderHandler(pages, folders, NoUser, id)
       IN  out.status = 401 /\ out.pages = pages /\ out.folders = folders
  /\ \A id \in FolderIdInputs, tp \in TargetParentInputs :
       \A desc \in isDescendant(folders, tp.id, id),
          eqNull \in EqNullOutcomes :
         LET out == MoveFolderHandler(folders, id, tp, desc, eqNull)
         IN  out.status = 401 /\ out.folders = folders

\* C15: a move-folder request of user u changes a parent_id only when the
\* folder to move is owned by u and the target parent, if any, is owned by
\* u too. The handler is the same for every caller: it reads no credential.
C15_MoveFolderOwnership ==
  \A u \in Users, id \in FolderIdInputs, tp \in TargetParentInputs :
    \A desc \in isDescendant(folders, tp.id, id), eqNull \in EqNullOutcomes :
      LET out == MoveFolderHandler(folders, id, tp, desc, eqNull)
      IN  out.folders # folders =>
            /\ \E f \in folders : f.id = id /\ f.user_id = u
            /\ \/ ParentValue(tp) = NULL
               \/ \E t \in folders : t.id = ParentValue(tp) /\ t.user_id = u

\* C16: every page's folder_id is null or the id of a folder of the page's
\* owner; a publish or move-page naming a folder that does not exist or is
\* another user's is answered 400 and changes no row.
C16_PageFolderOwnedByPageOwner ==
  /\ \A p \in pages :
       \/ p.folder_id = NULL
       \/ \E f \in folders : f.id = p.folder_id /\ f.user_id = p.user_id
  /\ \A u \in Users, f \in FolderIdInputs \ {NULL} :
       (~\E g \in folders : g.id = f /\ g.user_id = u) =>
         /\ \A m \in MarkdownInputs \ {""}, s \in {<<"a">>, <<"a", "a">>} :
              LET out == PublishHandler(pages, folders, u, m, s, f, now,
                                        nextPageId)
              IN  out.status = 400 /\ out.pages = pages
         /\ \A p \in pages :
              LET out == MovePageHandler(pages, folders, u, p.id, << >>, f,
                                         now)
              IN  out.status = 400 /\ out.pages = pages

\* the rows of one user
OwnedBy(rows, user) == {r \in rows : r.user_id = user}

\* C17: the page list, the folder list, the dashboard load and the export
\* return to a user what they would return if only that user's rows
\* existed.
C17_ReadsShowOwnRowsOnly ==
  \A u \in Users :
    LET myPages == OwnedBy(pages, u)
        myFolders == OwnedBy(folders, u)
    IN  /\ listActivePages(pages, u) = listActivePages(myPages, u)
        /\ listDeletedPages(pages, u) = listDeletedPages(myPages, u)
        /\ listFolders(folders, u) = listFolders(myFolders, u)
        /\ getDashboardProps(pages, folders)
             = getDashboardProps(myPages, myFolders)
        /\ \A d \in BOOLEAN :
             exportHandler(pages, folders, d)
               = exportHandler(myPages, myFolders, d)

\* the lists of the example: Projects at the root, Web inside Projects,
\* p1 in Projects, p2 in Web, p3 in no folder
ExampleProps ==
  [pages |-> <<[id |-> 1, slug |-> PageSlugOf(1), folder_id |-> 1,
                deleted_at |-> NULL],
               [id |-> 2, slug |-> PageSlugOf(2), folder_id |-> 2,
                deleted_at |-> NULL],
               [id |-> 3, slug |-> PageSlugOf(3), folder_id |-> NULL,
                deleted_at |-> NULL]>>,
   deletedPages |-> << >>,
   folders |-> <<[id |-> 1, name |-> "Projects", parent_id |-> NULL],
                 [id |-> 2, name |-> "Web", parent_id |-> 1]>>]

\* C18: the sidebar lists the top-level folders in store order, each folder
\* immediately followed by its direct pages one level down and then by its
\* child folders one level down, depth-first; then the pages in no folder
\* at level 0; then Trash, last, exactly when deleted pages exist. The
\* example gives [Projects, p1, Web, p2, p3] with levels [0, 1, 1, 2, 0].
C18_SidebarOrder ==
  LET ps == props.pages
      dps == props.deletedPages
      fs == props.folders
      items == SidebarItems(ps, dps, fs)
      n == Len(items)
      body == IF Len(dps) > 0 /\ n > 0 THEN SubSeq(items, 1, n - 1) ELSE items
      unc == SelectSeq(ps, LAMBDA q : q.folder_id = NULL)
      b == Len(body)
      k == Len(unc)
      inFolders == SubSeq(body, 1, b - k)
      m == Len(inFolders)
      top == SelectSeq(fs, LAMBDA f : f.parent_id = NULL)
      PagesIn(g) == SelectSeq(ps, LAMBDA q : q.folder_id = g)
      ChildrenOf(g) == SelectSeq(fs, LAMBDA f : f.parent_id = g)
      \* the last index of the run of deeper items that follows item i
      SpanEnd(i) ==
        CHOOSE e \in i..m :
          /\ \A j \in (i + 1)..e : inFolders[j].level > inFolders[i].level
          /\ e = m \/ inFolders[e + 1].level <= inFolders[i].level
      ex == SidebarItems(ExampleProps.pages, ExampleProps.deletedPages,
                         ExampleProps.folders)
  IN  /\ sidebarItems \in {<< >>, items}
      \* Trash last, exactly when deleted pages exist
      /\ Len(dps) > 0 => n > 0 /\ items[n] = TrashItem(Len(dps))
      /\ \A i \in 1..b : body[i].id # <<"trash">>
      \* the pages in no folder, at level 0, after the folders
      /\ b >= k
      /\ \A i \in 1..k : body[b - k + i] = PageItem(unc[i], 0)
      \* the top-level folders in store order
      /\ SelectSeq(inFolders, LAMBDA it : it.level = 0)
           = [i \in 1..Len(top) |->
                FolderItem(top[i], Len(PagesIn(top[i].id)), 0)]
      \* each folder, its pages, then its child folders, depth-first
      /\ \A i \in 1..m :
           inFolders[i].type = "folder" =>
             LET g == inFolders[i].id[2]
                 l == inFolders[i].level
                 fp == PagesIn(g)
                 cf == ChildrenOf(g)
                 e == SpanEnd(i)
             IN  /\ inFolders[i].pageCount = Len(fp)
                 /\ i + Len(fp) <= e
                 /\ \A j \in 1..Len(fp) :
                      inFolders[i + j] = PageItem(fp[j], l + 1)
                 /\ SelectSeq(SubSeq(inFolders, i + Len(fp) + 1, e),
                              LAMBDA it : it.level = l + 1)
                      = [j \in 1..Len(cf) |->
                           FolderItem(cf[j], Len(PagesIn(cf[j].id)), l + 1)]
      \* the example
      /\ [i \in 1..Len(ex) |-> ex[i].id]
           = << <<"folder", 1>>, <<"page", 1>>, <<"folder", 2>>,
                <<"page", 2>>, <<"page", 3>> >>
      /\ [i \in 1..Len(ex) |-> ex[i].level] = <<0, 1, 1, 2, 0>>

\* the dashboard holding the example's lists has rendered its sidebar
C18_Witness ==
  /\ props = ExampleProps
  /\ Len(sidebarItems) = 5
  /\ sidebarItems[3].name = "Web" /\ sidebarItems[4].level = 2

\* C19: every active page appears exactly once among the sidebar items; a
\* page whose folder the traversal does not visit is listed at level 0.
C19_EveryActivePageListedOnce ==
  LET items == SidebarItems(props.pages, props.deletedPages, props.folders)
  IN  \A i \in 1..Len(props.pages) :
        Cardinality({j \in 1..Len(items) :
                       items[j].id = <<"page", props.pages[i].id>>}) = 1

\* the files the upload policy admits: an image/* of at most 5 MB; an mp3
\* or wav of at most 10 MB; an mp4, quicktime, heic or heif video of at
\* most 10 MB whose measured duration is at most 30 seconds
PolicyAdmits(f, kind) ==
  \/ /\ kind = "image"
     /\ Len(f.type) = 2 /\ f.type[1] = "image"
     /\ f.size <= 5 * 1024 * 1024
  \/ /\ kind = "audio"
     /\ f.type \in {<<"audio", "mp3">>, <<"audio", "mpeg">>, <<"audio", "wav">>,
                    <<"audio", "x-wav">>, <<"audio", "wave">>}
     /\ f.size <= 10 * 1024 * 1024
  \/ /\ kind = "video"
     /\ f.type \in {<<"video", "mp4">>, <<"video", "quicktime">>,
                    <<"image", "heic">>, <<"image", "heif">>}
     /\ f.size <= 10 * 1024 * 1024
     /\ f.loaded /\ f.duration <= 30

\* C20: uploadFile contacts object storage only for a file the policy
\* admits; a 6 MB image, a 31-second video and a video whose duration
\* cannot be measured reach no storage call.
C20_UploadOnlyValidatedFiles ==
  /\ \A i \in 1..Len(storage) : PolicyAdmits(file, storage[i].kind)
  /\ \A k \in Kinds, c \in BOOLEAN :
       ~PolicyAdmits(file, k) => uploadFile(storage, file, k, c).storage = storage
  /\ \A c \in BOOLEAN :
       LET sixMB == [type |-> <<"image", "png">>, size |-> 6 * 1024 * 1024,
                     loaded |-> TRUE, duration |-> 0]
           long == [type |-> <<"video", "mp4">>, size |-> 1024,
                    loaded |-> TRUE, duration |-> 31]
           unmeasured == [type |-> <<"video", "mp4">>, size |-> 1024,
                          loaded |-> FALSE, duration |-> 0]
       IN  /\ uploadFile(storage, sixMB, "image", c).storage = storage
           /\ uploadFile(storage, long, "video", c).storage = storage
           /\ uploadFile(storage, unmeasured, "video", c).storage = storage

\* a 6 MB image was picked and refused for its size, nothing was sent
C20_Witness ==
  /\ file.type = <<"image", "png">> /\ file.size = 6 * 1024 * 1024
  /\ resp.op = "upload" /\ resp.action = "image" /\ resp.error = "size"
  /\ storage = << >>

\* names a folder create request may carry beyond the ones the actions
\* send: only spaces, a space before a letter, 100 and 101 letters
FolderNameProbes ==
  FolderNameInputs
    \cup {<<" ">>, <<" ", "n">>, [i \in 1..100 |-> "n"], [i \in 1..101 |-> "n"]}

\* C21: folder create accepts a name only if it is 1 to 100 characters long
\* (after trimming) and made of letters, digits, spaces, hyphens and
\* underscores; every other name is answered 400 and inserts no row; an
\* accepted folder has parent_id null and is owned by the caller.
C21_FolderNameValidation ==
  \A u \in Users, name \in FolderNameProbes :
    LET out == CreateFolderHandler(folders, u, name, nextFolderId)
        wellFormed ==
          /\ name \in Seq(Lower \cup Upper \cup Digit \cup {" ", "-", "_"})
          /\ Len(Trim(name)) >= 1 /\ Len(Trim(name)) <= 100
    IN  /\ out.status = 201 =>
              /\ wellFormed
              /\ \E row \in out.folders \ folders :
                   /\ out.folders = folders \cup {row}
                   /\ row.parent_id = NULL /\ row.user_id = u
        /\ ~wellFormed => out.status = 400 /\ out.folders = folders

\* C22: the publish endpoint's check, the pages table's CHECK constraint
\* and the editor's pre-submit check accept the same slugs.
C22_SlugLayersAgree ==
  \A u \in Users, m \in MarkdownInputs \ {""}, slug \in SlugInputs :
    LET endpoint == PublishValidate(folders, u, m, slug, NULL).status = 0
    IN  /\ endpoint <=> valid_page_slug(slug)
        /\ endpoint <=> handlePublishSlugOk(slug)

\* C23: publish never changes deleted_at; republishing the slug of a
\* soft-deleted page of the caller writes its markdown and folder_id and
\* answers 200 'updated', and the page is still in the owner's deleted list
\* and not in the active list. The same holds for a publish that finishes
\* after other requests were served since its existence check.
C23_PublishKeepsDeletedAt ==
  LET Kept(rows) ==
        \A p \in pages :
          \E q \in rows : q.id = p.id /\ q.deleted_at = p.deleted_at
      Republished(rows, p, m, f) ==
        /\ [p EXCEPT !.markdown = m, !.folder_id = f, !.updated_at = now]
             \in rows
        /\ p.id \in Range(listDeletedPages(rows, p.user_id))
        /\ p.id \notin Range(listActivePages(rows, p.user_id))
  IN  /\ \A u \in Users, m \in MarkdownInputs, s \in SlugInputs,
            f \in FolderIdInputs :
           LET out == PublishHandler(pages, folders, u, m, s, f, now,
                                     nextPageId)
           IN  /\ Kept(out.pages)
               /\ \A p \in pages :
                    ( /\ p.user_id = u /\ p.slug = s /\ p.deleted_at # NULL
                      /\ PublishValidate(folders, u, m, s, f).status = 0 )
                    => /\ out.status = 200 /\ out.action = "updated"
                       /\ Republished(out.pages, p, m, f)
      /\ \A i \in 1..Len(inflight) :
           LET r == inflight[i]
               out == PublishWrite(pages, folders, r.existing, r.user,
                                   r.markdown, r.slug, r.folderId, now,
                                   nextPageId)
           IN  /\ Kept(out.pages)
               /\ \A p \in pages :
                    ( /\ p.id = r.existing /\ p.deleted_at # NULL
                      /\ out.status = 200 )
                    => /\ out.action = "updated"
                       /\ Republished(out.pages, p, r.markdown, r.folderId)

\* a publish has just updated a page that was soft-deleted before, and the
\* page is still in the trash
C23_Witness ==
  /\ resp.op = "publish" /\ resp.status = 200 /\ resp.action = "updated"
  /\ \E p \in pages :
       /\ p.deleted_at # NULL /\ p.updated_at > p.deleted_at
       /\ p.id \in Range(listDeletedPages(pages, p.user_id))
       /\ p.id \notin Range(listActivePages(pages, p.user_id))

\* C24: no two folders of one owner have both the same parent_id and the
\* same name, after any sequence of folder create, move-folder and folder
\* delete requests of that owner, steps of different requests interleaved.
C24_SiblingNamesUnique ==
  \A f \in folders, g \in folders :
    (f.id # g.id /\ f.user_id = g.user_id)
      => ~(f.parent_id = g.parent_id /\ f.name = g.name)

\* C25: folder delete is not atomic. When its first statement (the pages
\* update) fails, the answer is 500 and nothing has changed; when the
\* subfolders update fails, the answer is 500, the caller's pages of the
\* folder are already uncategorized and the folders are as before; when the
\* row delete fails, the answer is 500, the pages are uncategorized, the
\* caller's subfolders are already under the folder's parent and the folder
\* row still exists.
C25_FolderDeleteNotAtomic ==
  \A u \in Users, id \in FolderIdInputs :
    DeleteFolderLookup(folders, u, id).status = 0 =>
      LET F      == CHOOSE f \in folders : f.id = id
          first  == DeleteFolderSteps(pages, folders, u, id, "pages")
          second == DeleteFolderSteps(pages, folders, u, id, "subfolders")
          third  == DeleteFolderSteps(pages, folders, u, id, "delete")
          Uncategorized(rows) ==
            /\ Cardinality(rows) = Cardinality(pages)
            /\ \A p \in pages :
                 IF p.folder_id = id /\ p.user_id = u
                 THEN [p EXCEPT !.folder_id = NULL] \in rows
                 ELSE p \in rows
          Reparented(fs) ==
            /\ Cardinality(fs) = Cardinality(folders)
            /\ \A f \in folders :
                 IF f.parent_id = id /\ f.user_id = u
                 THEN [f EXCEPT !.parent_id = F.parent_id] \in fs
                 ELSE f \in fs
      IN  /\ first.status = 500
          /\ first.pages = pages /\ first.folders = folders
          /\ second.status = 500
          /\ Uncategorized(second.pages) /\ second.folders = folders
          /\ third.status = 500
          /\ Uncategorized(third.pages) /\ Reparented(third.folders)
          /\ \E f \in third.folders : f.id = id

\* a folder delete has just been answered 500 at its row delete: the folder
\* is still there and no page of its owner is filed in a folder
C25_Witness ==
  /\ resp.op = "folder-delete" /\ resp.status = 500 /\ resp.error = "delete"
  /\ \E f \in folders, p \in pages : p.user_id = f.user_id
  /\ \A p \in pages : p.folder_id = NULL

\* C26: a folder delete removes exactly one folder row and no page row,
\* also when move-folder requests of the same owner are served between its
\* statements: a folder moved under the deleted folder after the reparent
\* step is still there after the row delete.
C26_FolderDeleteRemovesOneRow ==
  \A r \in deleting :
    r.step = "delete" =>
      LET out == DeleteFolderRow(pages, folders, r.user, r.folderId)
      IN  /\ folders \ out.folders
               = {f \in folders : f.id = r.folderId /\ f.user_id = r.user}
          /\ PageIds(out.pages) = PageIds(pages)

\* C27: move-folder writes a non-null parent_id only if that value passed
\* the target-exists check and the descendant check of the same request; a
\* targetParentId that is not a number is never written without them.
C27_MoveFolderWritesCheckedParent ==
  \A id \in FolderIdInputs, tp \in TargetParentInputs :
    \A desc \in isDescendant(folders, tp.id, id), eqNull \in EqNullOutcomes :
      LET out == MoveFolderHandler(folders, id, tp, desc, eqNull)
      IN  (\E f \in out.folders \ folders : f.id = id /\ f.parent_id # NULL)
            => /\ tp.type = "number"
               /\ \E t \in folders : t.id = tp.id
               /\ desc = "false"

\* C28: when isDescendant cannot read the folders because the store answers
\* an error, move-folder does not commit: no parent_id changes and the
\* answer is not a success.
C28_MoveFolderStopsOnReadError ==
  \A id \in FolderIdInputs, eqNull \in EqNullOutcomes :
    \A tp \in {t \in TargetParentInputs : t.type = "number"} :
      MoveFolderValidate(folders, id, tp, "false", eqNull).error
          \notin {"folder-id", "target", "not-found"}
        => \A desc \in isDescendantOnError(folders, tp.id, id) :
             LET out == MoveFolderHandler(folders, id, tp, desc, eqNull)
             IN  out.status # 200 /\ out.folders = folders

\* C29: isDescendant ends with an answer for every set of folders, one with
\* a parent_id cycle at or below the folder to move included: the search
\* never meets a folder again that it is still searching below.
C29_IsDescendantTerminates ==
  \A f \in folders, t \in folders :
    "overflow" \notin isDescendant(folders, t.id, f.id)

\* C30: a lookup by slug does not depend on other users' pages: delete-page
\* and move-page by slug act on the caller's page whenever the caller owns
\* a page with that slug, and GET /[slug] renders a page whenever an active
\* page with that slug exists.
C30_SlugLookupIgnoresOtherUsers ==
  \A s \in SlugInputs :
    /\ \A u \in Users :
         (\E p \in pages : p.user_id = u /\ p.slug = s) =>
           LET del == DeletePageHandler(pages, "DELETE", u, NULL, s, now)
               mov == MovePageHandler(pages, folders, u, NULL, s, NULL, now)
           IN  /\ del.status = 200
               /\ \E q \in del.pages :
                    q.user_id = u /\ q.slug = s /\ q.deleted_at # NULL
               /\ mov.status = 200
               /\ \E q \in mov.pages :
                    q.user_id = u /\ q.slug = s /\ q.folder_id = NULL
    /\ (\E p \in pages : p.slug = s /\ p.deleted_at = NULL)
         => ~getServerSideProps(pages, s).notFound

====
